---- MODULE Spec2Model ----
(***************************************************************************)
(* Statute parser of rag-chatbot: footer stripping (load_pdf and the       *)
(* create_vector_db script), the chapter/section/article segmenter         *)
(* (LawDocumentParser.parse_law_structure and parse_law_with_sections),    *)
(* the article splitter (split_articles) and the assembly of the records   *)
(* of each file of an ingestion run (create_documents, the loop of the     *)
(* create_vector_db script, bulk_ingest_from_mapping).                     *)
(*                                                                         *)
(* A text is a sequence of tokens.  A token is one character (a digit, a   *)
(* bracket, a blank, a line break) or one literal word of the source,      *)
(* written in revised romanisation because module text is ASCII:           *)
(*   "je" U+C81C   "jang" U+C7A5   "jeol" U+C808   "jo" U+C870             *)
(*   "ui" U+C758   "buchik" U+BD80 U+CE59   "jomun" U+C870 U+BB38          *)
(*   "beopjecheo" = the agency word of the footer,                         *)
(*   "gukgabeopnyeongjeongbosenteo" = the registry word of the footer,     *)
(*   "geunrogijunbeop", "goyongboheombeop" = two law names,                *)
(*   "beomnyul" U+BC95 U+B960 = the word of the file-name marker,          *)
(*   "[beomnyuljeongbo]", "[beomnyuljohang]" and the words between them =  *)
(*   the fixed text of a record's content.                                 *)
(* The result keys are the record fields seomun (preamble), jang (chapter  *)
(* map) and buchik (addendum).  A dict is a sequence of [k, v] records in  *)
(* insertion order, as a Python dict is.                                   *)
(***************************************************************************)
EXTENDS Integers, Sequences, FiniteSets, TLC

VARIABLES
    impl,             \* which implementation runs
    law_name,         \* the law name given for the document
    pages,            \* page_content of each loaded page
    law_text,         \* the text handed to the structural parse
    lines,            \* list(map(str.strip, law_text.split("\n")))
    i,                \* index (1-based) of the line the for loop reads next
    pc,               \* position of the invocation
    current_chapter,
    current_section,
    chapter_buffer,
    buffer,
    preamble_done,
    parsed,
    block,            \* argument of a direct split_articles call
    articles,         \* its return value
    pdf_files,        \* the files of an ingestion run, in the order processed
    file_idx,         \* index (1-based) of the file the run is at
    documents,        \* the records built for the file last assembled
    saved,            \* the record lists handed to the vector store, in order
    inv,              \* the locals of each of two parse invocations in flight
    state,            \* the state of a corrective-RAG graph run
    trace,            \* the graph nodes called in the run, in order
    validate_state    \* whether the build checks the state model at a node's input

inVars    == <<impl, law_name, pages, law_text>>
parseVars == <<lines, i, current_chapter, current_section, chapter_buffer,
               buffer, preamble_done, parsed>>
splitVars == <<block, articles>>
runVars   == <<pdf_files, file_idx, documents, saved>>
interVars == <<inv>>
graphVars == <<state, trace, validate_state>>
vars      == <<impl, law_name, pages, law_text, lines, i, pc, current_chapter,
               current_section, chapter_buffer, buffer, preamble_done, parsed,
               block, articles, pdf_files, file_idx, documents, saved, inv,
               state, trace, validate_state>>

\* Python's None; no text equals it.
None == <<"<None>">>

\* Truthiness of an Optional[str] or of a list: None, "" and [] are false.
Truthy(x) == x # None /\ x # <<>>

-----------------------------------------------------------------------------
(* Characters and strings *)

NL == "\n"
CR == "\r"

\* \s of re and the characters str.strip removes
IsSpace(c) == c \in {" ", "\n", "\r", "\t"}

\* \d of re
IsDigit(c) == c \in {"0", "1", "2", "3", "4", "5", "6", "7", "8", "9"}

\* s[from:] with a 1-based from
Tail_from(s, from) == SubSeq(s, from, Len(s))

RECURSIVE lstrip(_)
lstrip(s) ==
    IF s # <<>> /\ IsSpace(Head(s)) THEN lstrip(Tail(s)) ELSE s

RECURSIVE rstrip(_)
rstrip(s) ==
    IF s # <<>> /\ IsSpace(s[Len(s)]) THEN rstrip(SubSeq(s, 1, Len(s) - 1)) ELSE s

\* str.strip
strip(s) == rstrip(lstrip(s))

\* sep.join(parts)
RECURSIVE join(_, _)
join(sep, parts) ==
    IF parts = <<>> THEN <<>>
    ELSE IF Len(parts) = 1 THEN parts[1]
    ELSE parts[1] \o sep \o join(sep, Tail(parts))

\* text.replace("\r\n", "\n"): left to right, non-overlapping
RECURSIVE replace_crlf(_)
replace_crlf(s) ==
    IF s = <<>> THEN <<>>
    ELSE IF Len(s) >= 2 /\ s[1] = CR /\ s[2] = NL
         THEN <<NL>> \o replace_crlf(Tail_from(s, 3))
         ELSE <<s[1]>> \o replace_crlf(Tail(s))

\* replace_cr left out: a lone "\r" stays in the text
replace_cr_none(s) == s

\* text.replace("\r", "\n")
replace_cr(s) == [k \in 1..Len(s) |-> IF s[k] = CR THEN NL ELSE s[k]]

\* text.split("\n"): always at least one part
RECURSIVE split_nl(_, _)
split_nl(s, cur) ==
    IF s = <<>> THEN <<cur>>
    ELSE IF Head(s) = NL THEN <<cur>> \o split_nl(Tail(s), <<>>)
    ELSE split_nl(Tail(s), Append(cur, Head(s)))

\* map(str.strip, law_text.replace('\r\n','\n').replace('\r','\n').split('\n'))
text_lines(text) ==
    LET raw == split_nl(replace_cr(replace_crlf(text)), <<>>)
    IN  [k \in 1..Len(raw) |-> strip(raw[k])]

-----------------------------------------------------------------------------
(* Patterns *)

\* index of the first position >= p of s that holds no digit
RECURSIVE skip_digits(_, _)
skip_digits(s, p) ==
    IF p <= Len(s) /\ IsDigit(s[p]) THEN skip_digits(s, p + 1) ELSE p

\* index of the first position >= p of s that holds no white space
RECURSIVE skip_space(_, _)
skip_space(s, p) ==
    IF p <= Len(s) /\ IsSpace(s[p]) THEN skip_space(s, p + 1) ELSE p

\* ^je\d+<unit>\s+\S+ matched at the start of line, unit one of jang, jeol
header_match(line, unit) ==
    /\ Len(line) >= 2
    /\ line[1] = "je"
    /\ LET d == skip_digits(line, 2)
       IN  /\ d > 2
           /\ d <= Len(line)
           /\ line[d] = unit
           /\ LET w == skip_space(line, d + 1)
              IN  w > d + 1 /\ w <= Len(line)

chapter_pattern(line) == header_match(line, "jang")
section_pattern(line) == header_match(line, "jeol")

\* index of the first ")" of s at or after p, Len(s)+1 when there is none
RECURSIVE find_close(_, _)
find_close(s, p) ==
    IF p > Len(s) \/ s[p] = ")" THEN p ELSE find_close(s, p + 1)

\* ^(je\d+jo(?:ui\d+)?\([^)]+\)) : length of group(1), 0 when no match
title_pattern(line) ==
    IF ~(Len(line) >= 2 /\ line[1] = "je") THEN 0
    ELSE LET d == skip_digits(line, 2)
         IN  IF ~(d > 2 /\ d <= Len(line) /\ line[d] = "jo") THEN 0
             ELSE LET u == IF /\ d + 1 <= Len(line)
                              /\ line[d + 1] = "ui"
                              /\ skip_digits(line, d + 2) > d + 2
                           THEN skip_digits(line, d + 2)
                           ELSE d + 1
                  IN  IF ~(u <= Len(line) /\ line[u] = "(") THEN 0
                      ELSE LET c == find_close(line, u + 1)
                           IN  IF c <= Len(line) /\ c > u + 1 THEN c ELSE 0

\* line.startswith(<buchik>)
is_addendum(line) == line # <<>> /\ line[1] = "buchik"

-----------------------------------------------------------------------------
(* split_articles *)

\* ''.join(current_content)
RECURSIVE concat(_)
concat(parts) ==
    IF parts = <<>> THEN <<>> ELSE Head(parts) \o concat(Tail(parts))

\* article_text with the content joined by blanks: ' '.join(current_content)
article_text_spaced(current_title, current_content) ==
    current_title \o <<NL>> \o join(<<" ">>, current_content)

\* f"{current_title}\n{''.join(current_content)}"
article_text(current_title, current_content) ==
    current_title \o <<NL>> \o concat(current_content)

\* split_step that keeps the lines read before the first header and closes
\* them as an article without a title
split_step_orphan(a, raw) ==
    LET line == strip(raw)
        m    == title_pattern(line)
    IN  IF line = <<>> THEN a
        ELSE IF m > 0 THEN
            LET title == SubSeq(line, 1, m)
                rest  == strip(Tail_from(line, m + 1))
            IN  [articles        |-> IF Truthy(a.current_title) \/ a.current_content # <<>>
                                     THEN Append(a.articles,
                                                 article_text(IF Truthy(a.current_title)
                                                              THEN a.current_title
                                                              ELSE <<>>,
                                                              a.current_content))
                                     ELSE a.articles,
                 current_title   |-> title,
                 current_content |-> IF rest # <<>> THEN <<rest>> ELSE <<>>]
        ELSE [a EXCEPT !.current_content = Append(@, line)]

\* index of the first position >= p of line where the article-header pattern
\* matches, 0 when there is none: title_pattern.search instead of .match
RECURSIVE header_search(_, _)
header_search(line, p) ==
    IF p > Len(line) THEN 0
    ELSE IF title_pattern(Tail_from(line, p)) > 0 THEN p
    ELSE header_search(line, p + 1)

\* split_step with the pattern searched for anywhere in the line: the text
\* before the header goes to the open article, the header starts a new one
split_step_search(a, raw) ==
    LET line == strip(raw)
        h    == header_search(line, 1)
    IN  IF line = <<>> THEN a
        ELSE IF h > 0 THEN
            LET m      == title_pattern(Tail_from(line, h))
                before == strip(SubSeq(line, 1, h - 1))
                title  == SubSeq(line, h, h + m - 1)
                rest   == strip(Tail_from(line, h + m))
                cont   == IF Truthy(a.current_title) /\ before # <<>>
                          THEN Append(a.current_content, before)
                          ELSE a.current_content
            IN  [articles        |-> IF Truthy(a.current_title)
                                     THEN Append(a.articles,
                                                 article_text(a.current_title, cont))
                                     ELSE a.articles,
                 current_title   |-> title,
                 current_content |-> IF rest # <<>> THEN <<rest>> ELSE <<>>]
        ELSE IF Truthy(a.current_title) THEN
            [a EXCEPT !.current_content = Append(@, line)]
        ELSE a

\* One pass of the for loop of split_articles over the stripped line; a is
\* [articles, current_title, current_content].
split_step(a, raw) ==
    LET line == strip(raw)
        m    == title_pattern(line)
    IN  IF line = <<>> THEN a
        ELSE IF m > 0 THEN
            LET title == SubSeq(line, 1, m)
                rest  == strip(Tail_from(line, m + 1))
            IN  [articles        |-> IF Truthy(a.current_title)
                                     THEN Append(a.articles,
                                                 article_text(a.current_title,
                                                              a.current_content))
                                     ELSE a.articles,
                 current_title   |-> title,
                 current_content |-> IF rest # <<>> THEN <<rest>> ELSE <<>>]
        ELSE IF Truthy(a.current_title) THEN
            [a EXCEPT !.current_content = Append(@, line)]
        ELSE a

RECURSIVE split_loop(_, _)
split_loop(a, ls) ==
    IF ls = <<>> THEN a ELSE split_loop(split_step(a, Head(ls)), Tail(ls))

\* split_articles without the append after the loop: the last article is lost
split_articles_droplast(ls) ==
    LET a == split_loop([articles |-> <<>>, current_title |-> None,
                         current_content |-> <<>>], ls)
    IN  [k \in 1..Len(a.articles) |-> strip(a.articles[k])]

\* split_articles(lines): the same text in both implementations
split_articles(ls) ==
    LET a   == split_loop([articles |-> <<>>, current_title |-> None,
                           current_content |-> <<>>], ls)
        all == IF Truthy(a.current_title)
               THEN Append(a.articles,
                           article_text(a.current_title, a.current_content))
               ELSE a.articles
    IN  [k \in 1..Len(all) |-> strip(all[k])]

-----------------------------------------------------------------------------
(* Dicts in insertion order *)

dict_has(d, key) == \E n \in 1..Len(d) : d[n].k = key

\* d[key]
dict_get(d, key) == d[CHOOSE n \in 1..Len(d) : d[n].k = key].v

\* d.setdefault(key, val): a key already present keeps its value
dict_set_keepfirst(d, key, val) ==
    IF dict_has(d, key) THEN d ELSE Append(d, [k |-> key, v |-> val])

\* d[key] = val: a key already present keeps its place
dict_set(d, key, val) ==
    IF dict_has(d, key)
    THEN [n \in 1..Len(d) |-> IF d[n].k = key THEN [k |-> key, v |-> val] ELSE d[n]]
    ELSE Append(d, [k |-> key, v |-> val])

-----------------------------------------------------------------------------
(* The structural parse: parse_law_structure / parse_law_with_sections.    *)
(* s is the record of the locals current_chapter, current_section,         *)
(* chapter_buffer, buffer, preamble_done and parsed.                       *)

Impls == {"LawDocumentParser", "parse_law_with_sections"}

\* the default section label
DefaultSection == <<"jomun">>

\* The locals as first assigned.
initial_locals ==
    [current_chapter |-> None, current_section |-> None,
     chapter_buffer |-> <<>>, buffer |-> <<>>, preamble_done |-> FALSE,
     parsed |-> [seomun |-> <<>>, jang |-> <<>>, buchik |-> <<>>]]

\* flush_buffer without the elif: pending lines with no section open are
\* not stored
flush_buffer_nodefault(s) ==
    IF Truthy(s.current_section)
    THEN dict_set(s.chapter_buffer, s.current_section, s.buffer)
    ELSE s.chapter_buffer

\* if current_section: chapter_buffer[current_section] = buffer
\* elif buffer: chapter_buffer[<jomun>] = buffer
flush_buffer(s) ==
    IF Truthy(s.current_section)
    THEN dict_set(s.chapter_buffer, s.current_section, s.buffer)
    ELSE IF s.buffer # <<>>
    THEN dict_set(s.chapter_buffer, DefaultSection, s.buffer)
    ELSE s.chapter_buffer

\* {k: split_articles(v) for k, v in chapter_buffer.items()}
split_sections(cb) ==
    [n \in 1..Len(cb) |-> [k |-> cb[n].k, v |-> split_articles(cb[n].v)]]

\* store_chapter that stores a chapter only when it has a section
store_chapter_nonempty(s) ==
    LET cb == flush_buffer(s)
    IN  IF cb = <<>> THEN s
        ELSE [s EXCEPT !.chapter_buffer = cb,
                       !.parsed.jang = dict_set(@, s.current_chapter, split_sections(cb))]

\* The flush and the insertion of the open chapter, as written before the
\* break, at a chapter header after the first, and after the loop.
store_chapter(s) ==
    LET cb == flush_buffer(s)
    IN  [s EXCEPT !.chapter_buffer = cb,
                  !.parsed.jang = dict_set(@, s.current_chapter, split_sections(cb))]

\* The value stored under the addendum key at the marker line ls[idx].
\* parse_law_structure stores the line; parse_law_with_sections stores
\* "\n".join([line] + list(lines)[i + 1:]).strip() where lines is the map
\* iterator enumerate has already advanced past the marker, so list(lines)
\* holds only the lines after it, and i is the 0-based idx - 1.
addendum_value(im, ls, idx) ==
    IF im = "LawDocumentParser" THEN ls[idx]
    ELSE LET rest == Tail_from(ls, idx + 1)
         IN  strip(join(<<NL>>, <<ls[idx]>> \o Tail_from(rest, idx + 1)))

\* on_addendum where parse_law_with_sections closes the open chapter
\* without storing it
on_addendum_nostore(s, im, ls, idx) ==
    LET t == IF im = "parse_law_with_sections"
             THEN [s EXCEPT !.chapter_buffer = flush_buffer(s),
                            !.current_chapter = None]
             ELSE IF Truthy(s.current_chapter) THEN store_chapter(s)
             ELSE [s EXCEPT !.chapter_buffer = flush_buffer(s)]
    IN  [t EXCEPT !.parsed.buchik = addendum_value(im, ls, idx)]

\* if line.startswith(<buchik>): ... break
on_addendum(s, im, ls, idx) ==
    LET t == IF Truthy(s.current_chapter) THEN store_chapter(s)
             ELSE [s EXCEPT !.chapter_buffer = flush_buffer(s)]
    IN  [t EXCEPT !.parsed.buchik = addendum_value(im, ls, idx)]

\* on_chapter that leaves the open section as it is
on_chapter_keepsection(s, line) ==
    LET t == IF ~s.preamble_done
             THEN [s EXCEPT !.parsed.seomun = strip(join(<<NL>>, s.buffer)),
                            !.preamble_done = TRUE]
             ELSE IF Truthy(s.current_chapter) THEN store_chapter(s)
             ELSE s
    IN  [t EXCEPT !.current_chapter = line, !.chapter_buffer = <<>>,
                  !.buffer = <<>>]

\* if chapter_pattern.match(line): ... continue
on_chapter(s, line) ==
    LET t == IF ~s.preamble_done
             THEN [s EXCEPT !.parsed.seomun = strip(join(<<NL>>, s.buffer)),
                            !.preamble_done = TRUE]
             ELSE IF Truthy(s.current_chapter) THEN store_chapter(s)
             ELSE s
    IN  [t EXCEPT !.current_chapter = line, !.chapter_buffer = <<>>,
                  !.current_section = None, !.buffer = <<>>]

\* on_section without the flush of the pending lines
on_section_noflush(s, line) ==
    [s EXCEPT !.current_section = line, !.buffer = <<>>]

\* if section_pattern.match(line): ... continue
on_section(s, line) ==
    [s EXCEPT !.chapter_buffer = flush_buffer(s),
              !.current_section = line,
              !.buffer = <<>>]

\* buffer.append(line)
on_content(s, line) == [s EXCEPT !.buffer = Append(@, line)]

\* final_chapter without the flush of the pending lines
final_chapter_noflush(s) ==
    IF Truthy(s.current_chapter)
    THEN [s EXCEPT !.parsed.jang = dict_set(@, s.current_chapter,
                                            split_sections(s.chapter_buffer))]
    ELSE s

\* after the loop: if current_chapter: ...
final_chapter(s) ==
    IF Truthy(s.current_chapter) THEN store_chapter(s) ELSE s

\* The class of a stripped line, in the order the loop tests it.
line_class(line) ==
    IF line = <<>> THEN "blank"
    ELSE IF is_addendum(line) THEN "addendum"
    ELSE IF chapter_pattern(line) THEN "chapter"
    ELSE IF section_pattern(line) THEN "section"
    ELSE "content"

\* The whole loop from line idx on, then the code after it: the locals at return.
RECURSIVE parse_from(_, _, _, _)
parse_from(s, im, ls, idx) ==
    IF idx > Len(ls) THEN final_chapter(s)
    ELSE LET c == line_class(ls[idx])
         IN  IF c = "blank" THEN parse_from(s, im, ls, idx + 1)
             ELSE IF c = "addendum" THEN final_chapter(on_addendum(s, im, ls, idx))
             ELSE IF c = "chapter" THEN parse_from(on_chapter(s, ls[idx]), im, ls, idx + 1)
             ELSE IF c = "section" THEN parse_from(on_section(s, ls[idx]), im, ls, idx + 1)
             ELSE parse_from(on_content(s, ls[idx]), im, ls, idx + 1)

\* parse_law_structure(law_text) / parse_law_with_sections(law_text)
parse_law(im, text) == parse_from(initial_locals, im, text_lines(text), 1).parsed

-----------------------------------------------------------------------------
(* Inputs *)

\* Longest document, in lines, handed to the structural parse.
MaxLines == 4

\* Longest block, in lines, handed to split_articles directly.
MaxBlock == 4

ChapterLine1 == <<"je", "1", "jang", " ", "chongchik">>
ChapterLine2 == <<"je", "2", "jang", " ", "bochik">>
SectionLine  == <<"je", "1", "jeol", " ", "tongchik">>
ArticleLine1 == <<"je", "1", "jo", "(", "mokjeok", ")", " ", "mokjeogida">>
ArticleLine2 == <<"je", "2", "jo", "(", "jeongui", ")">>
ContentLine  == <<" ", "jeonguida">>
AddendumLine == <<"buchik">>
BlankLine    == <<" ">>

\* A line that begins with the marker and goes on like a chapter header, and
\* a chapter header line that goes on like a section header and the marker.
MarkerThenChapter  == <<"buchik", " ", "je", "1", "jang", " ", "chongchik">>
ChapterThenSection == <<"je", "3", "jang", " ", "je", "1", "jeol", " ", "buchik">>

\* Lines, as extracted (not yet stripped), a document is made of.
LinePool ==
    {ChapterLine1, ChapterLine2, SectionLine, ArticleLine1, ArticleLine2,
     ContentLine, AddendumLine, BlankLine, MarkerThenChapter, ChapterThenSection}

\* All sequences over S of length at most n
SeqsUpTo(S, n) == UNION {[1..m -> S] : m \in 0..n}

\* Documents: the lines joined by line breaks.
Texts == {join(<<NL>>, ls) : ls \in SeqsUpTo(LinePool, MaxLines)}

-----------------------------------------------------------------------------
(* The invocation, step by step *)

\* The locals of the running invocation.
Locals ==
    [current_chapter |-> current_chapter, current_section |-> current_section,
     chapter_buffer |-> chapter_buffer, buffer |-> buffer,
     preamble_done |-> preamble_done, parsed |-> parsed]

\* Assignment of the locals.
SetLocals(s) ==
    /\ current_chapter' = s.current_chapter
    /\ current_section' = s.current_section
    /\ chapter_buffer' = s.chapter_buffer
    /\ buffer' = s.buffer
    /\ preamble_done' = s.preamble_done
    /\ parsed' = s.parsed

\* The line the loop is at.
AtLine(c) == pc = "loop" /\ i <= Len(lines) /\ line_class(lines[i]) = c

\* Entry of the parse: the line iterator and the locals are set up.
ParseStart ==
    /\ pc = "start"
    /\ lines' = text_lines(law_text)
    /\ i' = 1
    /\ SetLocals(initial_locals)
    /\ pc' = "loop"
    /\ UNCHANGED <<inVars, splitVars, runVars, interVars, graphVars>>

\* SkipBlank without the continue: the blank line is appended to the
\* pending lines
SkipBlank_Append ==
    /\ AtLine("blank")
    /\ SetLocals(on_content(Locals, lines[i]))
    /\ i' = i + 1
    /\ UNCHANGED <<pc, lines, inVars, splitVars, runVars, interVars, graphVars>>

\* if not line: continue
SkipBlank ==
    /\ AtLine("blank")
    /\ i' = i + 1
    /\ UNCHANGED <<pc, lines, current_chapter, current_section, chapter_buffer,
                   buffer, preamble_done, parsed, inVars, splitVars, runVars, interVars, graphVars>>

\* AddendumMarker without the break: the loop goes on to the next line
AddendumMarker_NoBreak ==
    /\ AtLine("addendum")
    /\ SetLocals(on_addendum(Locals, impl, lines, i))
    /\ i' = i + 1
    /\ UNCHANGED <<pc, lines, inVars, splitVars, runVars, interVars, graphVars>>

\* the addendum marker: flush, insert the open chapter, store the addendum, break
AddendumMarker ==
    /\ AtLine("addendum")
    /\ SetLocals(on_addendum(Locals, impl, lines, i))
    /\ pc' = "break"
    /\ UNCHANGED <<lines, i, inVars, splitVars, runVars, interVars, graphVars>>

\* ChapterHeader without the continue: the line goes on to the checks
\* below and is appended to the pending lines as well
ChapterHeader_NoContinue ==
    /\ AtLine("chapter")
    /\ SetLocals(on_content(on_chapter(Locals, lines[i]), lines[i]))
    /\ i' = i + 1
    /\ UNCHANGED <<pc, lines, inVars, splitVars, runVars, interVars, graphVars>>

ChapterHeader ==
    /\ AtLine("chapter")
    /\ SetLocals(on_chapter(Locals, lines[i]))
    /\ i' = i + 1
    /\ UNCHANGED <<pc, lines, inVars, splitVars, runVars, interVars, graphVars>>

SectionHeader ==
    /\ AtLine("section")
    /\ SetLocals(on_section(Locals, lines[i]))
    /\ i' = i + 1
    /\ UNCHANGED <<pc, lines, inVars, splitVars, runVars, interVars, graphVars>>

\* ContentStep that reads the same line again
ContentStep_Stay ==
    /\ AtLine("content")
    /\ SetLocals(on_content(Locals, lines[i]))
    /\ UNCHANGED <<i, pc, lines, inVars, splitVars, runVars, interVars, graphVars>>

ContentStep ==
    /\ AtLine("content")
    /\ SetLocals(on_content(Locals, lines[i]))
    /\ i' = i + 1
    /\ UNCHANGED <<pc, lines, inVars, splitVars, runVars, interVars, graphVars>>

\* The code after the loop, reached at the end of the lines or by the break,
\* and the return.
FinalChapter ==
    /\ \/ pc = "loop" /\ i > Len(lines)
       \/ pc = "break"
    /\ SetLocals(final_chapter(Locals))
    /\ pc' = "done"
    /\ UNCHANGED <<lines, i, inVars, splitVars, runVars, interVars, graphVars>>

ParseNext ==
    \/ ParseStart
    \/ SkipBlank
    \/ AddendumMarker
    \/ ChapterHeader
    \/ SectionHeader
    \/ ContentStep
    \/ FinalChapter

\* One structural parse of one text by either implementation.
Init ==
    /\ impl \in Impls
    /\ law_name = None
    /\ pages = <<>>
    /\ law_text \in Texts
    /\ pc = "start"
    /\ lines = <<>>
    /\ i = 1
    /\ current_chapter = None
    /\ current_section = None
    /\ chapter_buffer = <<>>
    /\ buffer = <<>>
    /\ preamble_done = FALSE
    /\ parsed = initial_locals.parsed
    /\ block = <<>>
    /\ articles = <<>>
    /\ pdf_files = <<>>
    /\ file_idx = 1
    /\ documents = <<>>
    /\ saved = <<>>
    /\ state = <<>>
    /\ trace = <<>>
    /\ validate_state = FALSE
    /\ inv = <<>>

Next == ParseNext

Spec == Init /\ [][Next]_vars

\* The addendum marker was read: the loop ended by the break at line i.
MarkerSeen == pc \in {"break", "done"} /\ i <= Len(lines)

Returned == pc = "done"

-----------------------------------------------------------------------------
(* A direct call of split_articles, then a call of the parse on one chapter *)
(* holding the same block.                                                  *)

HeaderMidLine   == <<"jeonguida", " ", "je", "3", "jo", "(", "beolchik", ")">>
IndentedArticle == <<" ", "je", "1", "jo", "ui", "2", "(", "teungnye", ")",
                     "teungnyeida">>

\* Lines a block handed to split_articles is made of.
BlockPool ==
    {ArticleLine1, ArticleLine2, IndentedArticle, ContentLine, HeaderMidLine,
     BlankLine}

SplitCall ==
    /\ pc = "split"
    /\ articles' = split_articles(block)
    /\ pc' = "parse"
    /\ UNCHANGED <<block, inVars, parseVars, runVars, interVars, graphVars>>

\* parsed = parse_law_structure(law_text) / parse_law_with_sections(law_text),
\* the call taken as one step
ParseCall ==
    /\ pc = "parse"
    /\ parsed' = parse_law(impl, law_text)
    /\ pc' = "done"
    /\ UNCHANGED <<lines, i, current_chapter, current_section, chapter_buffer,
                   buffer, preamble_done, inVars, splitVars, runVars, interVars, graphVars>>

InitSplit ==
    /\ impl \in Impls
    /\ law_name = None
    /\ pages = <<>>
    /\ block \in SeqsUpTo(BlockPool, MaxBlock)
    /\ law_text = join(<<NL>>, <<ChapterLine1>> \o block)
    /\ pc = "split"
    /\ lines = <<>>
    /\ i = 1
    /\ current_chapter = None
    /\ current_section = None
    /\ chapter_buffer = <<>>
    /\ buffer = <<>>
    /\ preamble_done = FALSE
    /\ parsed = initial_locals.parsed
    /\ articles = <<>>
    /\ pdf_files = <<>>
    /\ file_idx = 1
    /\ documents = <<>>
    /\ saved = <<>>
    /\ state = <<>>
    /\ trace = <<>>
    /\ validate_state = FALSE
    /\ inv = <<>>

NextSplit == SplitCall \/ ParseCall

SpecSplit == InitSplit /\ [][NextSplit]_vars

\* split_articles has returned.
SplitReturned == pc # "split"

-----------------------------------------------------------------------------
(* Footer stripping: LawDocumentParser.load_pdf and the page loop of the   *)
(* create_vector_db script.                                                *)

\* Longest extracted document, in lines, before a footer is inserted.
MaxPageLines == 3

GeunroName == <<"geunrogijunbeop">>
GoyongName == <<"goyongboheombeop">>

\* Law names a document is loaded under.
LawNames == {GeunroName, GoyongName}

\* the law name written into the pattern of create_vector_db.py
ScriptFooterName == GoyongName

\* s has the tokens of w at position p
has_at(s, p, w) == p + Len(w) - 1 <= Len(s) /\ SubSeq(s, p, p + Len(w) - 1) = w

\* beopjecheo\s+\d+\s+gukgabeopnyeongjeongbosenteo\s*\n<name> matched at
\* position p of s: the position after the match, 0 when there is no match.
\* name begins with no white space, so \s* takes the whole run of white space
\* and the run must end with the line break.
footer_match(s, p, name) ==
    IF s[p] # "beopjecheo" THEN 0
    ELSE LET w1 == skip_space(s, p + 1)
             d  == skip_digits(s, w1)
             w2 == skip_space(s, d)
         IN  IF ~(w1 > p + 1 /\ d > w1 /\ w2 > d /\ w2 <= Len(s)
                  /\ s[w2] = "gukgabeopnyeongjeongbosenteo") THEN 0
             ELSE LET e == skip_space(s, w2 + 1)
                  IN  IF e > w2 + 1 /\ s[e - 1] = NL /\ has_at(s, e, name)
                      THEN e + Len(name)
                      ELSE 0

\* footer_pattern.sub('', s) from position p on: every non-overlapping match,
\* leftmost first, is removed in one pass.
RECURSIVE footer_sub(_, _, _)
footer_sub(s, p, name) ==
    IF p > Len(s) THEN <<>>
    ELSE LET e == footer_match(s, p, name)
         IN  IF e > 0 THEN footer_sub(s, e, name)
             ELSE <<s[p]>> \o footer_sub(s, p + 1, name)

\* footer_pattern.sub('', p.page_content.strip()).strip() for each page,
\* joined by line breaks
clean_pages(ps, name) ==
    join(<<NL>>, [k \in 1..Len(ps) |-> strip(footer_sub(strip(ps[k]), 1, name))])

\* LawDocumentParser(law_name).load_pdf: the pattern is built from law_name
load_pdf(name, ps) == clean_pages(ps, name)

\* create_vector_db.py: the pattern names one law, whatever the file is
script_law_text(ps) == clean_pages(ps, ScriptFooterName)

AgencyLine == <<"beopjecheo", " ", "3", " ", "gukgabeopnyeongjeongbosenteo">>

\* The law name followed by more text on the same line.
NamePlus(name) == name \o <<" ", "sihaengnyeong">>

\* Lines a page of the document named name is made of.
LoadPool(name) ==
    {ChapterLine1, ArticleLine1, AddendumLine, AgencyLine, name, NamePlus(name)}

\* ls with the two footer lines of name inserted after its first n lines
with_footer(ls, n, name) ==
    SubSeq(ls, 1, n) \o <<AgencyLine, name>> \o Tail_from(ls, n + 1)

\* The lines of a document, with or without an inserted footer.
DocLines(name) ==
    UNION {{ls} \cup {with_footer(ls, n, name) : n \in 0..Len(ls)} :
           ls \in SeqsUpTo(LoadPool(name), MaxPageLines)}

\* ls as one page, or as two pages with the page break after line b
paginate(ls, b) ==
    IF b = 0 \/ b >= Len(ls) THEN <<join(<<NL>>, ls)>>
    ELSE <<join(<<NL>>, SubSeq(ls, 1, b)), join(<<NL>>, Tail_from(ls, b + 1))>>

PageSets(name) ==
    UNION {{paginate(ls, b) : b \in 0..2} : ls \in DocLines(name)}

\* law_text = self.load_pdf(pdf_path), or lines 27-41 of the script
LoadPdf ==
    /\ pc = "load"
    /\ law_text' = IF impl = "LawDocumentParser" THEN load_pdf(law_name, pages)
                   ELSE script_law_text(pages)
    /\ pc' = "parse"
    /\ UNCHANGED <<impl, law_name, pages, parseVars, splitVars, runVars, interVars, graphVars>>

\* One document loaded and parsed: by LawDocumentParser (create_documents) or
\* by the create_vector_db script with parse_law_with_sections.
InitLoad ==
    /\ impl \in Impls
    /\ law_name \in LawNames
    /\ pages \in PageSets(law_name)
    /\ law_text = <<>>
    /\ pc = "load"
    /\ lines = <<>>
    /\ i = 1
    /\ current_chapter = None
    /\ current_section = None
    /\ chapter_buffer = <<>>
    /\ buffer = <<>>
    /\ preamble_done = FALSE
    /\ parsed = initial_locals.parsed
    /\ block = <<>>
    /\ articles = <<>>
    /\ pdf_files = <<>>
    /\ file_idx = 1
    /\ documents = <<>>
    /\ saved = <<>>
    /\ state = <<>>
    /\ trace = <<>>
    /\ validate_state = FALSE
    /\ inv = <<>>

NextLoad == LoadPdf \/ ParseCall

SpecLoad == InitLoad /\ [][NextLoad]_vars

-----------------------------------------------------------------------------
(* An ingestion run over several files: LawVectorDB.bulk_ingest_from_mapping *)
(* with LawDocumentParser.create_documents, and the loop of the             *)
(* create_vector_db script.  A file is [path, name, pages]: name is the law *)
(* name the file is of, which bulk_ingest_from_mapping is given as the key  *)
(* of law_mapping at the position of the file.                              *)

\* Most lines of the first file of a run, its footer not counted.
MaxRunLines == 4

\* "(" <beomnyul> ")": the literal the script looks for in a file name
LawMarker == <<"(", "beomnyul", ")">>

\* index of the first position >= p where s holds w, 0 when there is none
RECURSIVE find_at(_, _, _)
find_at(s, p, w) ==
    IF p + Len(w) - 1 > Len(s) THEN 0
    ELSE IF has_at(s, p, w) THEN p
    ELSE find_at(s, p + 1, w)

\* os.path.basename(pdf_file)
basename(path) ==
    LET seps == {k \in 1..Len(path) : path[k] = "/"}
    IN  IF seps = {} THEN path
        ELSE Tail_from(path, (CHOOSE k \in seps : \A j \in seps : j <= k) + 1)

\* re.search(r"^(.*?)\(<beomnyul>\)", filename): group(1).strip() of the
\* match, None when there is no match.  A file name holds no line break.
file_law_name(filename) ==
    LET m == find_at(filename, 1, LawMarker)
    IN  IF m = 0 THEN None ELSE strip(SubSeq(filename, 1, m - 1))

\* The value of the script's law_name after lines 19-25 for pdf_file, prev
\* being its value before (None: not yet bound).
script_law_name(prev, pdf_file) ==
    LET m == file_law_name(basename(pdf_file))
    IN  IF m # None THEN m ELSE prev

\* article_text.split("\n", 1)[0]
title_line(text) == split_nl(text, <<>>)[1]

\* The page_content of a record.
page_content(name, chapter, section, text) ==
    <<"[beomnyuljeongbo]", NL, "daeum", " ", "johangeun", " ">>
        \o name \o <<" ">> \o chapter \o <<" ">> \o section
        \o <<"eseo", " ", "balchwehan", " ", "naeyongimnida.", NL, NL,
             "[beomnyuljohang]", NL>>
        \o text

\* Document(page_content=content, metadata=metadata)
make_document(pdf_path, name, chapter, section, text) ==
    [page_content |-> page_content(name, chapter, section, text),
     source  |-> pdf_path,
     chapter |-> chapter,
     section |-> section,
     name    |-> name,
     article |-> title_line(text)]

\* make_document that tags the record with the file name instead of the path
make_document_basename(pdf_path, name, chapter, section, text) ==
    [page_content |-> page_content(name, chapter, section, text),
     source  |-> basename(pdf_path),
     chapter |-> chapter,
     section |-> section,
     name    |-> name,
     article |-> title_line(text)]

\* build_documents that walks the sections of a chapter last to first
build_documents_reversed(pdf_path, name, tree) ==
    concat([c \in 1..Len(tree.jang) |->
        LET sections == tree.jang[c].v
            n        == Len(sections)
        IN  concat([q \in 1..n |->
                [a \in 1..Len(sections[n + 1 - q].v) |->
                    make_document(pdf_path, name, tree.jang[c].k,
                                  sections[n + 1 - q].k, sections[n + 1 - q].v[a])]])])

\* The three nested loops over parsed_law[<jang>]: the records in the order
\* they are appended.
build_documents(pdf_path, name, tree) ==
    concat([c \in 1..Len(tree.jang) |->
        LET sections == tree.jang[c].v
        IN  concat([q \in 1..Len(sections) |->
                [a \in 1..Len(sections[q].v) |->
                    make_document(pdf_path, name, tree.jang[c].k,
                                  sections[q].k, sections[q].v[a])]])])

\* The file the run is at.
CurrentFile == pdf_files[file_idx]

\* The head of one pass of the loop over the files.  bulk_ingest_from_mapping
\* builds LawDocumentParser(law_name) from the key of law_mapping at the
\* position of the file; the script takes law_name from the file name when
\* the file name matches and leaves it as it was when it does not.
RunFile ==
    /\ pc = "file"
    /\ file_idx <= Len(pdf_files)
    /\ law_name' = IF impl = "LawDocumentParser" THEN CurrentFile.name
                   ELSE script_law_name(law_name, CurrentFile.path)
    /\ pages' = CurrentFile.pages
    /\ pc' = "load"
    /\ UNCHANGED <<impl, law_text, parseVars, splitVars, runVars, interVars, graphVars>>

\* The records of the parsed file and their handing over to the store, then
\* the next file.  In the script law_name is unbound when no file name has
\* matched so far: the pass raises NameError and nothing is handed over.
Assemble ==
    /\ pc = "done"
    /\ file_idx <= Len(pdf_files)
    /\ IF impl = "parse_law_with_sections" /\ law_name = None
       THEN /\ pc' = "raised"
            /\ UNCHANGED <<file_idx, documents, saved>>
       ELSE /\ documents' = build_documents(CurrentFile.path, law_name, parsed)
            /\ saved' = Append(saved, documents')
            /\ file_idx' = file_idx + 1
            /\ pc' = IF file_idx < Len(pdf_files) THEN "file" ELSE "end"
    /\ UNCHANGED <<pdf_files, inVars, parseVars, splitVars, interVars, graphVars>>

\* The name of a file of the law name, with or without the marker.
FileName(name, marked) ==
    name \o (IF marked THEN LawMarker ELSE <<>>) \o <<".pdf">>

FilePath(name, marked) == <<"data", "/">> \o FileName(name, marked)

\* Lines the first file of a run is made of.
RunPool == {ChapterLine1, ChapterLine2, SectionLine, ArticleLine1, ArticleLine2}

\* A file of one page: the lines, then the footer of the law name.
File(name, marked, ls) ==
    [path  |-> FilePath(name, marked),
     name  |-> name,
     pages |-> <<join(<<NL>>, ls \o <<AgencyLine, name>>)>>]

FirstFiles ==
    {File(n, m, ls) : n \in LawNames, m \in BOOLEAN,
                      ls \in SeqsUpTo(RunPool, MaxRunLines)}

\* The second file of a run is of another law.
SecondFiles(f) ==
    {File(n, m, <<ChapterLine2, ArticleLine2>>) :
        n \in LawNames \ {f.name}, m \in BOOLEAN}

\* Runs of one file or of two.
Runs == UNION {{<<f>>} \cup {<<f, g>> : g \in SecondFiles(f)} : f \in FirstFiles}

InitRun ==
    /\ impl \in Impls
    /\ pdf_files \in Runs
    /\ file_idx = 1
    /\ documents = <<>>
    /\ saved = <<>>
    /\ state = <<>>
    /\ trace = <<>>
    /\ validate_state = FALSE
    /\ law_name = None
    /\ pages = <<>>
    /\ law_text = <<>>
    /\ pc = "file"
    /\ lines = <<>>
    /\ i = 1
    /\ current_chapter = None
    /\ current_section = None
    /\ chapter_buffer = <<>>
    /\ buffer = <<>>
    /\ preamble_done = FALSE
    /\ parsed = initial_locals.parsed
    /\ block = <<>>
    /\ articles = <<>>
    /\ inv = <<>>

NextRun == RunFile \/ LoadPdf \/ ParseCall \/ Assemble

SpecRun == InitRun /\ [][NextRun]_vars

\* The file at position k of the run has been assembled and handed over.
Saved(k) == k <= Len(saved)

-----------------------------------------------------------------------------
(* Two invocations of the structural parse in flight at once, their steps  *)
(* interleaved.  Every name the parse assigns is a local of the call        *)
(* (lines, parsed, current_chapter, current_section, chapter_buffer,        *)
(* buffer, preamble_done, the compiled patterns); of the instance it only   *)
(* reads.  inv[n] holds the text, the line iterator, the position and the   *)
(* locals of invocation n.                                                  *)

\* Longest document, in lines, of an invocation run beside another.
MaxInterLines == 2

Invocations == {1, 2}

InterPool == {ChapterLine1, SectionLine, ArticleLine1, ContentLine, AddendumLine}

InterTexts == {join(<<NL>>, ls) : ls \in SeqsUpTo(InterPool, MaxInterLines)}

\* Invocation n is in the loop at a line of class c.
InvAt(n, c) ==
    /\ inv[n].pc = "loop"
    /\ inv[n].i <= Len(inv[n].lines)
    /\ line_class(inv[n].lines[inv[n].i]) = c

\* Invocation n reads on with the locals s.
InvStep(n, s) == inv' = [inv EXCEPT ![n].s = s, ![n].i = @ + 1]

InterFrame == UNCHANGED <<inVars, parseVars, pc, splitVars, runVars, graphVars>>

InvStart(n) ==
    /\ inv[n].pc = "start"
    /\ inv' = [inv EXCEPT ![n].lines = text_lines(inv[n].law_text),
                          ![n].i = 1,
                          ![n].s = initial_locals,
                          ![n].pc = "loop"]
    /\ InterFrame

InvSkipBlank(n) ==
    /\ InvAt(n, "blank")
    /\ InvStep(n, inv[n].s)
    /\ InterFrame

InvAddendumMarker(n) ==
    /\ InvAt(n, "addendum")
    /\ inv' = [inv EXCEPT ![n].s = on_addendum(inv[n].s, impl, inv[n].lines, inv[n].i),
                          ![n].pc = "break"]
    /\ InterFrame

InvChapterHeader(n) ==
    /\ InvAt(n, "chapter")
    /\ InvStep(n, on_chapter(inv[n].s, inv[n].lines[inv[n].i]))
    /\ InterFrame

InvSectionHeader(n) ==
    /\ InvAt(n, "section")
    /\ InvStep(n, on_section(inv[n].s, inv[n].lines[inv[n].i]))
    /\ InterFrame

\* InvContentStep with buffer a name of the module, not a local: the line is
\* appended to the one list both invocations use
InvContentStep_Shared(n) ==
    /\ InvAt(n, "content")
    /\ inv' = [m \in Invocations |->
                 [inv[m] EXCEPT !.s.buffer = Append(inv[m].s.buffer,
                                                    inv[n].lines[inv[n].i]),
                                !.i = IF m = n THEN @ + 1 ELSE @]]
    /\ InterFrame

InvContentStep(n) ==
    /\ InvAt(n, "content")
    /\ InvStep(n, on_content(inv[n].s, inv[n].lines[inv[n].i]))
    /\ InterFrame

InvFinalChapter(n) ==
    /\ \/ inv[n].pc = "loop" /\ inv[n].i > Len(inv[n].lines)
       \/ inv[n].pc = "break"
    /\ inv' = [inv EXCEPT ![n].s = final_chapter(inv[n].s), ![n].pc = "done"]
    /\ InterFrame

\* Two invocations of one implementation on two different documents.
InitInter ==
    /\ impl \in Impls
    /\ inv \in {[n \in Invocations |->
                   [law_text |-> IF n = 1 THEN t1 ELSE t2, lines |-> <<>>, i |-> 1,
                    pc |-> "start", s |-> initial_locals]] :
                t1 \in InterTexts, t2 \in InterTexts}
    /\ inv[1].law_text # inv[2].law_text
    /\ law_name = None
    /\ pages = <<>>
    /\ law_text = <<>>
    /\ pc = "inter"
    /\ lines = <<>>
    /\ i = 1
    /\ current_chapter = None
    /\ current_section = None
    /\ chapter_buffer = <<>>
    /\ buffer = <<>>
    /\ preamble_done = FALSE
    /\ parsed = initial_locals.parsed
    /\ block = <<>>
    /\ articles = <<>>
    /\ pdf_files = <<>>
    /\ file_idx = 1
    /\ documents = <<>>
    /\ saved = <<>>
    /\ state = <<>>
    /\ trace = <<>>
    /\ validate_state = FALSE

NextInter ==
    \E n \in Invocations :
        \/ InvStart(n)
        \/ InvSkipBlank(n)
        \/ InvAddendumMarker(n)
        \/ InvChapterHeader(n)
        \/ InvSectionHeader(n)
        \/ InvContentStep(n)
        \/ InvFinalChapter(n)

SpecInter == InitInter /\ [][NextInter]_vars

-----------------------------------------------------------------------------
(* The structural parse of documents whose line breaks are "\n", "\r\n"    *)
(* or "\r" (SpecBreak).                                                    *)

MaxBreakLines == 3

\* The three ways a line break is written.
BreakForms == {<<NL>>, <<CR, NL>>, <<CR>>}

\* Lines of every class, the empty line among them.
BreakPool == {ChapterLine1, SectionLine, ArticleLine1, AddendumLine, <<>>}

\* The texts made of the lines ls with any line break between two lines.
RECURSIVE BrokenTexts(_)
BrokenTexts(ls) ==
    IF ls = <<>> THEN {<<>>}
    ELSE IF Len(ls) = 1 THEN {ls[1]}
    ELSE {ls[1] \o b \o r : b \in BreakForms, r \in BrokenTexts(Tail(ls))}

BreakTexts == UNION {BrokenTexts(ls) : ls \in SeqsUpTo(BreakPool, MaxBreakLines)}

InitBreak ==
    /\ impl \in Impls
    /\ law_name = None
    /\ pages = <<>>
    /\ law_text \in BreakTexts
    /\ pc = "start"
    /\ lines = <<>>
    /\ i = 1
    /\ current_chapter = None
    /\ current_section = None
    /\ chapter_buffer = <<>>
    /\ buffer = <<>>
    /\ preamble_done = FALSE
    /\ parsed = initial_locals.parsed
    /\ block = <<>>
    /\ articles = <<>>
    /\ pdf_files = <<>>
    /\ file_idx = 1
    /\ documents = <<>>
    /\ saved = <<>>
    /\ state = <<>>
    /\ trace = <<>>
    /\ validate_state = FALSE
    /\ inv = <<>>

NextBreak == ParseNext

SpecBreak == InitBreak /\ [][NextBreak]_vars

-----------------------------------------------------------------------------
(* The corrective-RAG graph built by AgentFactory.build_graph from the     *)
(* nodes of RAGNodeBuilder (SpecGraph).  pc is the node the run is at.     *)
(* What the retriever and the language model return is any value of a      *)
(* small set; the scores are in tenths.                                    *)

MaxDocs == 2
MaxStrips == 1

\* The user's question, and the documents the retriever may return.
Question == <<"q1">>
Docs == {"d1", "d2"}

\* Scores a response may carry: 0.7 and 0.8, the two sides of the thresholds.
Scores == {7, 8}

\* InformationItem, and ExtractedInformation: the response for one document
InformationItems == [relevance_score : Scores, faithfulness_score : Scores]
Responses ==
    [query_relevance : Scores, strips : SeqsUpTo(InformationItems, MaxStrips)]

\* RefinedQuestion.question_refined, which may be the empty string
RefinedQuestions == {<<>>, <<"q2">>}

Answers == {<<"a1">>}

\* num_generations: int = Field(default=0, ge=0, le=1)
num_generations_ok(n) == 0 <= n /\ n <= 1

\* The state read for a node or for the routing function is accepted: a
\* build that checks the state model refuses a value outside its bounds.
accepts(s) == ~validate_state \/ num_generations_ok(s.num_generations)

\* strip.relevance_score > 0.7 and strip.faithfulness_score > 0.7
valid_strip(item) == item.relevance_score > 7 /\ item.faithfulness_score > 7

\* the for loop of _extract over the responses rs, one for each document
RECURSIVE extracted_strips(_, _)
extracted_strips(rs, k) ==
    IF k > Len(rs) THEN <<>>
    ELSE (IF rs[k].query_relevance < 8 THEN <<>>
          ELSE SelectSeq(rs[k].strips, valid_strip))
         \o extracted_strips(rs, k + 1)

\* should_continue(state)
should_continue(s) ==
    IF s.num_generations >= 2 \/ Len(s.extracted_info) >= 1 THEN "stop"
    ELSE "continue"

\* The run ends with the error of a refused state; no write is made.
Raise(node) ==
    /\ pc' = "raised"
    /\ trace' = Append(trace, node)
    /\ UNCHANGED state

\* node "retrieve", then the edge to extract_and_evaluate
Retrieve ==
    /\ pc = "retrieve"
    /\ IF accepts(state)
       THEN \E docs \in SeqsUpTo(Docs, MaxDocs) :
               /\ state' = [state EXCEPT !.relevant_docs = docs]
               /\ trace' = Append(trace, "retrieve")
               /\ pc' = "extract_and_evaluate"
       ELSE Raise("retrieve")
    /\ UNCHANGED <<inVars, parseVars, splitVars, runVars, interVars, validate_state>>

\* node "extract_and_evaluate", then the conditional edge: should_continue
\* reads the state with the node's update
ExtractAndEvaluate ==
    /\ pc = "extract_and_evaluate"
    /\ IF accepts(state)
       THEN \E rs \in [1..Len(state.relevant_docs) -> Responses] :
               LET new == [state EXCEPT
                              !.extracted_info = extracted_strips(rs, 1),
                              !.num_generations = state.num_generations + 1]
               IN  IF accepts(new)
                   THEN /\ state' = new
                        /\ trace' = Append(trace, "extract_and_evaluate")
                        /\ pc' = IF should_continue(new) = "continue"
                                 THEN "rewrite_query" ELSE "generate_answer"
                   ELSE Raise("extract_and_evaluate")
       ELSE Raise("extract_and_evaluate")
    /\ UNCHANGED <<inVars, parseVars, splitVars, runVars, interVars, validate_state>>

\* node "rewrite_query", then the edge to retrieve
RewriteQuery ==
    /\ pc = "rewrite_query"
    /\ IF accepts(state)
       THEN \E q \in RefinedQuestions :
               /\ state' = [state EXCEPT !.rewritten_question = q]
               /\ trace' = Append(trace, "rewrite_query")
               /\ pc' = "retrieve"
       ELSE Raise("rewrite_query")
    /\ UNCHANGED <<inVars, parseVars, splitVars, runVars, interVars, validate_state>>

\* node "generate_answer", then the edge to END
GenerateAnswer ==
    /\ pc = "generate_answer"
    /\ IF accepts(state)
       THEN \E a \in Answers :
               /\ state' = [state EXCEPT !.final_answer = a]
               /\ trace' = Append(trace, "generate_answer")
               /\ pc' = "end"
       ELSE Raise("generate_answer")
    /\ UNCHANGED <<inVars, parseVars, splitVars, runVars, interVars, validate_state>>

\* agent_graph.invoke({"question": user_query}): the other fields have their
\* defaults and the run is at the node START leads to.
InitGraph ==
    /\ state = [question |-> Question, rewritten_question |-> None,
                relevant_docs |-> <<>>, extracted_info |-> <<>>,
                num_generations |-> 0, final_answer |-> None]
    /\ trace = <<>>
    /\ validate_state \in BOOLEAN
    /\ pc = "retrieve"
    /\ impl = "AgentFactory"
    /\ law_name = None
    /\ pages = <<>>
    /\ law_text = <<>>
    /\ lines = <<>>
    /\ i = 1
    /\ current_chapter = None
    /\ current_section = None
    /\ chapter_buffer = <<>>
    /\ buffer = <<>>
    /\ preamble_done = FALSE
    /\ parsed = initial_locals.parsed
    /\ block = <<>>
    /\ articles = <<>>
    /\ pdf_files = <<>>
    /\ file_idx = 1
    /\ documents = <<>>
    /\ saved = <<>>
    /\ inv = <<>>

NextGraph == Retrieve \/ ExtractAndEvaluate \/ RewriteQuery \/ GenerateAnswer

SpecGraph == InitGraph /\ [][NextGraph]_vars

-----------------------------------------------------------------------------
(* Properties of the structural parse (Spec)                               *)

\* The lines of ls that are not blank, in order.
NonBlank(ls) == SelectSeq(ls, LAMBDA l : l # <<>>)

\* Index of the first line of ls that begins with the addendum marker, 0 if none.
FirstMarker(ls) ==
    IF \E k \in 1..Len(ls) : is_addendum(ls[k])
    THEN CHOOSE k \in 1..Len(ls) :
            is_addendum(ls[k]) /\ \A j \in 1..(k - 1) : ~is_addendum(ls[j])
    ELSE 0

\* Index of the first line of ls that matches the chapter pattern, 0 if none.
FirstChapter(ls) ==
    IF \E k \in 1..Len(ls) : chapter_pattern(ls[k])
    THEN CHOOSE k \in 1..Len(ls) :
            chapter_pattern(ls[k]) /\ \A j \in 1..(k - 1) : ~chapter_pattern(ls[j])
    ELSE 0

\* The lines before the addendum marker (all of them when there is none).
BeforeMarker(ls) ==
    IF FirstMarker(ls) > 0 THEN SubSeq(ls, 1, FirstMarker(ls) - 1) ELSE ls

\* C1: once the parse has returned from a text with an addendum marker line,
\* the addendum value is the marker line followed by every later line of the
\* input, in order, joined by line breaks (trimmed or not).
C1_AddendumVerbatim ==
    (Returned /\ FirstMarker(lines) > 0) =>
        LET all == join(<<NL>>, Tail_from(lines, FirstMarker(lines)))
        IN  parsed.buchik \in {all, strip(all)}

\* C2: the addendum marker ends the structural parse.  The loop never reads a
\* line after the first marker line, and from the marker on the chapter map
\* is the one the lines before the marker give: the chapter open at the
\* marker is in it with the content read before the marker, and no later
\* line, header or not, adds to it or changes it.
C2_AddendumTerminal ==
    LET m == FirstMarker(lines)
    IN  m > 0 =>
          /\ pc = "loop" => i <= m
          /\ pc \in {"break", "done"} =>
                /\ i = m
                /\ parsed.jang =
                      parse_from(initial_locals, impl, SubSeq(lines, 1, m - 1), 1).parsed.jang

\* C2 witness: the parse returned after a marker that closed a chapter holding
\* an article, and a chapter, section or article header follows the marker.
C2_Witness ==
    /\ Returned
    /\ MarkerSeen
    /\ \E n \in 1..Len(parsed.jang) :
          \E q \in 1..Len(parsed.jang[n].v) : parsed.jang[n].v[q].v # <<>>
    /\ \E j \in (i + 1)..Len(lines) :
          \/ chapter_pattern(lines[j])
          \/ section_pattern(lines[j])
          \/ title_pattern(lines[j]) > 0

\* C3: for a text with a chapter header, the preamble is the non-blank lines
\* before the first chapter header, joined by line breaks, whatever those
\* lines are.  Stated for the texts whose first chapter header is read, that
\* is, with no addendum marker before it.
C3_PreambleBeforeFirstChapter ==
    (/\ Returned
     /\ FirstChapter(lines) > 0
     /\ FirstMarker(lines) \notin 1..FirstChapter(lines)) =>
        parsed.seomun =
            join(<<NL>>, NonBlank(SubSeq(lines, 1, FirstChapter(lines) - 1)))

\* C4: for a text with no chapter header, the preamble is the whole document
\* text (as given, trimmed, or as its non-blank lines), the chapter map is
\* empty and the addendum is empty.  Stated for the texts that have no
\* addendum marker either, where nothing else claims a line.
C4_NoChapterAllPreamble ==
    (Returned /\ FirstChapter(lines) = 0 /\ FirstMarker(lines) = 0) =>
        /\ parsed.seomun \in {law_text, strip(law_text), join(<<NL>>, NonBlank(lines))}
        /\ parsed.jang = <<>>
        /\ parsed.buchik = <<>>

\* The chapter header lines of ls read before the addendum marker, each at
\* the place of its first occurrence.
FirstSeen(ls) ==
    LET b == NonBlank(BeforeMarker(ls))
    IN  SelectSeq([k \in 1..Len(b) |->
                      IF chapter_pattern(b[k]) /\ \A j \in 1..(k - 1) : b[j] # b[k]
                      THEN b[k] ELSE <<>>],
                  LAMBDA l : l # <<>>)

\* The non-blank lines the loop reads: those before the addendum marker.
Body == NonBlank(BeforeMarker(lines))

\* The lines of Body after the chapter header at c, up to the next chapter
\* header or the end.
Segment(c) ==
    LET later == {k \in (c + 1)..Len(Body) : chapter_pattern(Body[k])}
        last  == IF later = {} THEN Len(Body)
                 ELSE (CHOOSE k \in later : \A j \in later : k <= j) - 1
    IN  SubSeq(Body, c + 1, last)

\* Positions of Body holding a chapter header whose text occurs once.
SingleChapters ==
    {c \in 1..Len(Body) :
        /\ chapter_pattern(Body[c])
        /\ \A k \in 1..Len(Body) : Body[k] = Body[c] => k = c}

HasArticle(ls) == \E k \in 1..Len(ls) : title_pattern(ls[k]) > 0

\* C8: in the result, a chapter with no section header has at most the one
\* section key "jomun", holding all its articles; a chapter with one section
\* header between two article blocks has exactly two keys, "jomun" with the
\* articles before the section header, then the section header text with the
\* articles after it.
C8_DefaultAndExplicitSection ==
    Returned =>
      \A c \in SingleChapters :
        LET seg  == Segment(c)
            secs == {k \in 1..Len(seg) : section_pattern(seg[k])}
            map  == dict_get(parsed.jang, Body[c])
        IN  /\ dict_has(parsed.jang, Body[c])
            /\ secs = {} =>
                  map = IF seg = <<>> THEN <<>>
                        ELSE <<[k |-> DefaultSection, v |-> split_articles(seg)]>>
            /\ \A sp \in secs :
                  (/\ secs = {sp}
                   /\ HasArticle(SubSeq(seg, 1, sp - 1))
                   /\ HasArticle(Tail_from(seg, sp + 1)))
                  => map = <<[k |-> DefaultSection,
                              v |-> split_articles(SubSeq(seg, 1, sp - 1))],
                             [k |-> seg[sp],
                              v |-> split_articles(Tail_from(seg, sp + 1))]>>

\* C8 witness: a returned chapter with the default key and a section key, each
\* holding an article.
C8_Witness ==
    /\ Returned
    /\ \E n \in 1..Len(parsed.jang) :
          LET map == parsed.jang[n].v
          IN  /\ Len(map) = 2
              /\ map[1].k = DefaultSection
              /\ section_pattern(map[2].k)
              /\ map[1].v # <<>>
              /\ map[2].v # <<>>

\* x is a text: a sequence of tokens.
IsText(x) == \A k \in 1..Len(x) : x[k] \in STRING

\* x is a dict whose keys are texts, no key twice.
IsDict(x) ==
    /\ \A n \in 1..Len(x) : DOMAIN x[n] = {"k", "v"} /\ IsText(x[n].k)
    /\ \A n, m \in 1..Len(x) : x[n].k = x[m].k => n = m

\* The result has the three slots and no other: the preamble a text, the
\* chapter map a dict of dicts of lists of texts, the addendum a text.
ThreeSlots ==
    /\ DOMAIN parsed = {"seomun", "jang", "buchik"}
    /\ IsText(parsed.seomun)
    /\ IsText(parsed.buchik)
    /\ IsDict(parsed.jang)
    /\ \A n \in 1..Len(parsed.jang) :
          /\ IsDict(parsed.jang[n].v)
          /\ \A q \in 1..Len(parsed.jang[n].v) :
                \A a \in 1..Len(parsed.jang[n].v[q].v) :
                    IsText(parsed.jang[n].v[q].v[a])

\* The steps the invocation still has to take, at most: one to enter the
\* loop, one for each line not yet read, one for the code after the loop.
StepsLeft ==
    IF pc = "start" THEN Len(text_lines(law_text)) + 2
    ELSE IF pc = "loop" THEN Len(lines) - i + 2
    ELSE IF pc = "break" THEN 1
    ELSE 0

\* The invocation has a step to take: it is at its entry, at a line of one of
\* the five kinds, past the last line, or at the break.
CanStep ==
    \/ pc = "start"
    \/ /\ pc = "loop"
       /\ i <= Len(lines)
       /\ \/ lines[i] = <<>>
          \/ is_addendum(lines[i])
          \/ chapter_pattern(lines[i])
          \/ section_pattern(lines[i])
          \/ IsText(lines[i])
    \/ pc = "loop" /\ i > Len(lines)
    \/ pc = "break"

\* C13: for every input text the structural parse returns without raising:
\* as long as it has not returned it has a step to take, every step brings
\* the return nearer, and no step leads anywhere but to the loop, the break
\* or the return.  What it returns has exactly the three slots, the addendum
\* empty when the text has no addendum marker line.
C13_ParseReturns ==
    /\ [](pc \in {"start", "loop", "break", "done"})
    /\ [](pc # "done" => CanStep)
    /\ [](StepsLeft >= 0)
    /\ [][StepsLeft' < StepsLeft]_vars
    /\ [](Returned =>
            /\ ThreeSlots
            /\ FirstMarker(lines) = 0 => parsed.buchik = <<>>)

\* C13 witness: a parse returned from a text with a preamble and a chapter
\* and no addendum marker, the addendum empty.
C13_Witness ==
    /\ Returned
    /\ FirstMarker(lines) = 0
    /\ parsed.seomun # <<>>
    /\ parsed.jang # <<>>
    /\ parsed.buchik = <<>>

\* The position in Body of the last line equal to key.
LastOcc(key) ==
    CHOOSE c \in 1..Len(Body) :
        Body[c] = key /\ \A d \in (c + 1)..Len(Body) : Body[d] # key

\* The section map built from the chapter header at position c of Body and
\* the lines that follow it up to the next chapter header.
ChapterMap(c) ==
    parse_from(initial_locals, impl, <<Body[c]>> \o Segment(c), 1).parsed.jang[1].v

\* Some chapter header text is read twice.
DuplicateChapter ==
    \E c, d \in 1..Len(Body) : c < d /\ chapter_pattern(Body[c]) /\ Body[c] = Body[d]

\* C14: when a chapter header text is read twice, the tree holds one entry
\* under it, whose section map is the one built from the later occurrence;
\* and the whole chapter map is made of the last occurrence of each header
\* text, so the lines under an earlier occurrence have no part in the tree.
C14_DuplicateChapterOverwrites ==
    (Returned /\ DuplicateChapter) =>
        /\ \A c \in 1..Len(Body) :
              chapter_pattern(Body[c]) =>
                  /\ Cardinality({n \in 1..Len(parsed.jang) :
                                    parsed.jang[n].k = Body[c]}) = 1
                  /\ dict_get(parsed.jang, Body[c]) = ChapterMap(LastOcc(Body[c]))
        /\ parsed.jang =
              LET keys == FirstSeen(lines)
              IN  [n \in 1..Len(keys) |->
                      [k |-> keys[n], v |-> ChapterMap(LastOcc(keys[n]))]]

\* C14 witness: a parse returned from a text with the same chapter header
\* twice, an article under the earlier one and another under the later one,
\* and one chapter in the tree, holding the later article only.
C14_Witness ==
    /\ Returned
    /\ \E c, d \in 1..Len(Body) :
          /\ c < d
          /\ chapter_pattern(Body[c])
          /\ Body[c] = Body[d]
          /\ HasArticle(Segment(c))
          /\ HasArticle(Segment(d))
          /\ Segment(c) # Segment(d)
          /\ parsed.jang = <<[k |-> Body[d],
                              v |-> <<[k |-> DefaultSection,
                                       v |-> split_articles(Segment(d))]>>]>>

\* The lines of seg before its first section header line.
BeforeSection(seg) ==
    LET secs == {k \in 1..Len(seg) : section_pattern(seg[k])}
    IN  IF secs = {} THEN seg
        ELSE SubSeq(seg, 1, (CHOOSE k \in secs : \A j \in secs : k <= j) - 1)

\* C15: for every chapter of the result, taken at the occurrence of its
\* header the entry was built from: if a content line was read between the
\* header and the next chapter header, the marker or the end, the section map
\* has an entry; and if content lines were read before any section header,
\* the first entry is the default label, it holds the articles of exactly
\* these lines, and no other entry has the default label.
C15_SectionMapNonEmpty ==
    Returned =>
        \A n \in 1..Len(parsed.jang) :
            LET seg == Segment(LastOcc(parsed.jang[n].k))
                pre == BeforeSection(seg)
                map == parsed.jang[n].v
            IN  /\ (\E k \in 1..Len(seg) : ~section_pattern(seg[k])) => Len(map) >= 1
                /\ pre # <<>> =>
                      /\ Len(map) >= 1
                      /\ map[1] = [k |-> DefaultSection, v |-> split_articles(pre)]
                      /\ \A q \in 2..Len(map) : map[q].k # DefaultSection

\* C15 witness: a returned chapter whose lines before its section header are
\* content with no article header: the default label is there, empty, before
\* the section key.
C15_Witness ==
    /\ Returned
    /\ \E n \in 1..Len(parsed.jang) :
          /\ Len(parsed.jang[n].v) = 2
          /\ parsed.jang[n].v[1] = [k |-> DefaultSection, v |-> <<>>]
          /\ section_pattern(parsed.jang[n].v[2].k)

\* The section map of the open chapter once the pending lines are flushed:
\* under the current section, under the default label when no section is
\* open and lines are pending, and every buffered section split into articles.
Finalized ==
    split_sections(
        IF current_section # None /\ current_section # <<>>
        THEN dict_set(chapter_buffer, current_section, buffer)
        ELSE IF buffer # <<>>
        THEN dict_set(chapter_buffer, DefaultSection, buffer)
        ELSE chapter_buffer)

\* C18: when the loop has read the last line without meeting the marker, the
\* step that ends the parse inserts the open chapter with its finalized
\* section map, as the step at a marker line standing there would, and
\* leaves the rest of the tree, the preamble and the empty addendum as they
\* are; and the tree returned for a text without marker is the one returned
\* for the text with a marker line added at its end.
C18_EndOfInputFinalizes ==
    /\ [][(pc = "loop" /\ i > Len(lines) /\ pc' = "done") =>
            /\ parsed'.buchik = <<>>
            /\ parsed'.seomun = parsed.seomun
            /\ parsed'.jang =
                  on_addendum(Locals, impl, Append(lines, AddendumLine),
                              Len(lines) + 1).parsed.jang
            /\ IF current_chapter = None
               THEN parsed'.jang = parsed.jang
               ELSE /\ dict_get(parsed'.jang, current_chapter) = Finalized
                    /\ \A n \in 1..Len(parsed.jang) :
                          parsed.jang[n].k # current_chapter
                              => parsed'.jang[n] = parsed.jang[n]]_vars
    /\ []((Returned /\ FirstMarker(lines) = 0) =>
            LET m == parse_from(initial_locals, impl, Append(lines, AddendumLine), 1).parsed
            IN  /\ parsed.jang = m.jang
                /\ parsed.seomun = m.seomun
                /\ parsed.buchik = <<>>)

\* C18 witness: a parse returned at the end of a text without marker, a
\* section open and lines pending in it, the articles of these lines in the
\* tree under that section of the last chapter.
C18_Witness ==
    /\ Returned
    /\ FirstMarker(lines) = 0
    /\ current_chapter # None
    /\ current_section # None
    /\ buffer # <<>>
    /\ dict_has(parsed.jang, current_chapter)
    /\ dict_has(dict_get(parsed.jang, current_chapter), current_section)
    /\ dict_get(dict_get(parsed.jang, current_chapter), current_section) # <<>>
    /\ parsed.buchik = <<>>

\* The step taken leaves the loop at the line it read.
Breaks == pc' = "break" /\ i' = i

\* The step taken goes on to the next line.
Continues == pc' = "loop" /\ i' = i + 1

\* C19: a non-blank line matches at most one of the three tests (begins with
\* the marker, chapter pattern, section pattern), and the step that reads it
\* is the one transition of its kind: the addendum transition when it begins
\* with the marker, else the chapter transition when it matches the chapter
\* pattern, else the section transition when it matches the section
\* pattern, else the line is appended to the pending lines and nothing else
\* changes.
C19_OneTransitionPerLine ==
    [][(pc = "loop" /\ i <= Len(lines) /\ lines[i] # <<>>) =>
         LET line == lines[i]
             A == is_addendum(line)
             C == chapter_pattern(line)
             S == section_pattern(line)
         IN  /\ ~(A /\ C) /\ ~(A /\ S) /\ ~(C /\ S)
             /\ A => Breaks /\ parsed'.buchik # <<>>
             /\ ~A => Continues /\ parsed'.buchik = <<>>
             /\ (~A /\ C) =>
                   /\ current_chapter' = line
                   /\ current_section' = None
                   /\ chapter_buffer' = <<>>
                   /\ buffer' = <<>>
                   /\ preamble_done'
             /\ (~A /\ ~C /\ S) =>
                   /\ current_section' = line
                   /\ buffer' = <<>>
                   /\ UNCHANGED <<current_chapter, preamble_done, parsed>>
             /\ (~A /\ ~C /\ ~S) =>
                   /\ buffer' = Append(buffer, line)
                   /\ UNCHANGED <<current_chapter, current_section,
                                  chapter_buffer, preamble_done, parsed>>]_vars

\* C19 witness: the parse has read a chapter header line that goes on like a
\* section header as a chapter header, then a section header line, then a
\* content line, and has stopped at a marker line that goes on like a chapter
\* header.
C19_Witness ==
    /\ pc = "break"
    /\ lines = <<ChapterThenSection, SectionLine, ArticleLine2, MarkerThenChapter>>
    /\ i = 4
    /\ current_chapter = ChapterThenSection
    /\ current_section = SectionLine
    /\ buffer = <<ArticleLine2>>
    /\ parsed.buchik # <<>>

\* The lines of the text as given, before they are trimmed.
RawLines == split_nl(law_text, <<>>)

\* C20: a line of the text that is empty or holds white space only is read
\* as an empty line, and the step that reads an empty line goes on to the
\* next line and changes nothing else: not the current chapter, the current
\* section, the chapter buffer, the pending lines, the preamble flag or the
\* tree, whatever they are; so the preamble and the chapter map returned are
\* those of the text without its blank lines.
C20_BlankLineSkipped ==
    /\ [](pc # "start" =>
            LET raw == RawLines
            IN  \A k \in 1..Len(lines) :
                    lines[k] = <<>> <=> \A c \in 1..Len(raw[k]) : IsSpace(raw[k][c]))
    /\ [][(pc = "loop" /\ i <= Len(lines) /\ lines[i] = <<>>) =>
            /\ i' = i + 1
            /\ pc' = "loop"
            /\ UNCHANGED <<current_chapter, current_section, chapter_buffer,
                           buffer, preamble_done, parsed>>]_vars
    /\ [](Returned =>
            LET m == parse_from(initial_locals, impl, NonBlank(lines), 1).parsed
            IN  parsed.seomun = m.seomun /\ parsed.jang = m.jang)

\* C20 witness: a white-space line has just been read with a chapter and a
\* section open and a line pending.
C20_Witness ==
    /\ pc = "loop"
    /\ i > 1
    /\ lines[i - 1] = <<>>
    /\ RawLines[i - 1] # <<>>
    /\ current_chapter # None
    /\ current_section # None
    /\ buffer # <<>>

\* t holds w somewhere.
Holds(t, w) == \E p \in 1..Len(t) : has_at(t, p, w)

\* The non-blank lines read so far in the loop.
ReadLines == NonBlank(SubSeq(lines, 1, i - 1))

\* The lines read since the header of the open chapter.
OpenSegment ==
    LET r  == ReadLines
        cs == {k \in 1..Len(r) : chapter_pattern(r[k])}
    IN  Tail_from(r, (CHOOSE k \in cs : \A j \in cs : j <= k) + 1)

\* The section key a line at position k of seg belongs to: the most recent
\* section header line before it, the default label when there is none.
KeyAt(seg, k) ==
    LET secs == {j \in 1..(k - 1) : section_pattern(seg[j])}
    IN  IF secs = {} THEN DefaultSection
        ELSE seg[CHOOSE j \in secs : \A h \in secs : h <= j]

\* The content lines of seg that belong to the section key, in order.
LinesUnder(seg, key) ==
    SelectSeq([k \in 1..Len(seg) |->
                  IF ~section_pattern(seg[k]) /\ KeyAt(seg, k) = key
                  THEN seg[k] ELSE <<>>],
              LAMBDA l : l # <<>>)

\* C22: while a chapter is open, the section lines stored so far together
\* with the pending lines, stored as every flush stores them, hold every
\* content line read since the chapter header under the key of the most
\* recent section header before it, or under the default label: each key
\* holds exactly its lines, in order, and there is no other key.
C22_SectionFlushKeepsEveryLine ==
    (pc = "loop" /\ Truthy(current_chapter)) =>
        LET seg  == OpenSegment
            held == flush_buffer(Locals)
            keys == {DefaultSection} \cup
                    {seg[k] : k \in {j \in 1..Len(seg) : section_pattern(seg[j])}}
        IN  /\ \A n \in 1..Len(held) : held[n].k \in keys
            /\ \A key \in keys :
                  LinesUnder(seg, key) # <<>> =>
                      /\ dict_has(held, key)
                      /\ dict_get(held, key) = LinesUnder(seg, key)

\* The section state the loop is in after the lines of seg, read from the
\* state a chapter header leaves: no open section, nothing stored, nothing
\* pending.
RECURSIVE AfterSegment(_, _, _)
AfterSegment(s, seg, k) ==
    IF k > Len(seg) THEN s
    ELSE AfterSegment(IF section_pattern(seg[k]) THEN on_section(s, seg[k])
                      ELSE on_content(s, seg[k]),
                      seg, k + 1)

SectionState(s) == <<s.current_section, s.chapter_buffer, s.buffer>>

\* C23: a chapter header leaves no open section, an empty section buffer and
\* no pending line.  While a chapter is open its section state is the one
\* its own lines build from that empty state, so nothing of an earlier
\* chapter is in it; until a section header is read, no section is open and
\* the lines read are the pending lines, which a flush stores under the
\* default label.  In the result each chapter's section map is built from the
\* lines of the chapter alone.
C23_ChapterHeaderResetsSections ==
    /\ [](pc = "loop" /\ Truthy(current_chapter) =>
            LET seg == OpenSegment
            IN  /\ SectionState(Locals) =
                      SectionState(AfterSegment(
                          [Locals EXCEPT !.current_section = None,
                                         !.chapter_buffer = <<>>,
                                         !.buffer = <<>>], seg, 1))
                /\ BeforeSection(seg) = seg =>
                      /\ current_section = None
                      /\ chapter_buffer = <<>>
                      /\ buffer = seg
                      /\ seg # <<>> =>
                            flush_buffer(Locals) = <<[k |-> DefaultSection, v |-> seg]>>)
    /\ [](Returned =>
            \A n \in 1..Len(parsed.jang) :
                parsed.jang[n].v = ChapterMap(LastOcc(parsed.jang[n].k)))
    /\ [][AtLine("chapter") =>
            /\ current_chapter' = lines[i]
            /\ current_section' = None
            /\ chapter_buffer' = <<>>
            /\ buffer' = <<>>]_vars

\* C23 witness: a chapter with a section header, then a second chapter whose
\* article follows its header at once: in the result the first chapter has
\* the section key and the second one the default label only, with the
\* article.
C23_Witness ==
    /\ Returned
    /\ Len(parsed.jang) = 2
    /\ Len(parsed.jang[1].v) = 1
    /\ section_pattern(parsed.jang[1].v[1].k)
    /\ Len(parsed.jang[2].v) = 1
    /\ parsed.jang[2].v[1].k = DefaultSection
    /\ Len(parsed.jang[2].v[1].v) = 1
    /\ Len(Body) = 4
    /\ chapter_pattern(Body[3])
    /\ title_pattern(Body[4]) > 0

\* The keys of the dict d, in order.
Keys(d) == [n \in 1..Len(d) |-> d[n].k]

\* C27: the keys of the chapter map of the result are the chapter header
\* lines read before the addendum marker, or before the end when there is no
\* marker, each once, in the order they are first read: every such line is a
\* key and every key is such a line.  A chapter header followed by no
\* content line and no section header, and not read again later, has the
\* empty section map.
C27_EveryChapterIsAKey ==
    Returned =>
        /\ Keys(parsed.jang) = FirstSeen(lines)
        /\ \A c \in 1..Len(Body) :
              chapter_pattern(Body[c]) =>
                  /\ dict_has(parsed.jang, Body[c])
                  /\ (Segment(c) = <<>> /\ LastOcc(Body[c]) = c) =>
                        dict_get(parsed.jang, Body[c]) = <<>>
        /\ \A n \in 1..Len(parsed.jang) :
              \E c \in 1..Len(Body) :
                  chapter_pattern(Body[c]) /\ Body[c] = parsed.jang[n].k

\* C27 witness: a result with a chapter that has an article and, after it, a
\* chapter with no line at all, which is a key with the empty section map.
C27_Witness ==
    /\ Returned
    /\ Len(parsed.jang) = 2
    /\ parsed.jang[1].v # <<>>
    /\ parsed.jang[1].v[1].v # <<>>
    /\ parsed.jang[2].v = <<>>
    /\ Segment(LastOcc(parsed.jang[2].k)) = <<>>

\* The implementation that is not im.
Other(im) == CHOOSE o \in Impls : o # im

SectionBeforeChapter ==
    /\ FirstChapter(lines) > 0
    /\ FirstMarker(lines) \notin 1..FirstChapter(lines)
    /\ \E k \in 1..(FirstChapter(lines) - 1) : line_class(lines[k]) = "section"

\* C26: when a section header line is read before any chapter header, the
\* parse returns and every non-blank line before the first chapter header,
\* the lines before the section header, the section header line and the
\* lines after it, is part of the preamble.
C26_SectionBeforeChapterIsPreamble ==
    (Returned /\ SectionBeforeChapter) =>
        \A k \in 1..(FirstChapter(lines) - 1) :
            lines[k] # <<>> => Holds(parsed.seomun, lines[k])

-----------------------------------------------------------------------------
(* Properties of split_articles (SpecSplit)                                *)

\* The indices of the lines of b whose trimmed text begins with an article
\* header, in order.
HeaderIdx(b) ==
    SelectSeq([k \in 1..Len(b) |-> k], LAMBDA k : title_pattern(strip(b[k])) > 0)

\* The header matched on line k of b.
HeaderText(b, k) == SubSeq(strip(b[k]), 1, title_pattern(strip(b[k])))

\* The body of the article whose header is on line h and that ends with line
\* e of b: the trimmed text after the header, then the trimmed later lines,
\* nothing between them.
BodyText(b, h, e) ==
    strip(Tail_from(strip(b[h]), title_pattern(strip(b[h])) + 1))
        \o concat([j \in 1..(e - h) |-> strip(b[h + j])])

\* C5: split_articles returns as many articles as the block has lines whose
\* trimmed text matches the anchored article-header pattern, and the n-th
\* article begins with the header of the n-th such line.
C5_ArticleCountAndOrder ==
    SplitReturned =>
        LET h == HeaderIdx(block)
        IN  /\ Len(articles) = Len(h)
            /\ \A n \in 1..Len(h) : has_at(articles[n], 1, HeaderText(block, h[n]))

\* C5 witness: a block with three header lines, not all alike, and a line
\* that is no header.
C5_Witness ==
    /\ SplitReturned
    /\ Len(HeaderIdx(block)) = 3
    /\ Len(articles) = 3
    /\ articles[1] # articles[2]
    /\ \E k \in 1..Len(block) :
          strip(block[k]) # <<>> /\ title_pattern(strip(block[k])) = 0

\* The tree of scenario A: one chapter, two articles.
ScenarioATree ==
    [seomun |-> <<>>,
     jang   |-> <<[k |-> ChapterLine1,
                   v |-> <<[k |-> DefaultSection,
                            v |-> << <<"je", "1", "jo", "(", "mokjeok", ")", "\n",
                                       "mokjeogida">>,
                                     <<"je", "2", "jo", "(", "jeongui", ")", "\n",
                                       "jeonguida">> >>]>>]>>,
     buchik |-> <<>>]

\* The block is the two articles of scenario A, blank lines apart.
ScenarioABlock ==
    NonBlank([k \in 1..Len(block) |-> strip(block[k])])
        = <<ArticleLine1, ArticleLine2, strip(ContentLine)>>

\* C6: each article is its header, a line break and its body, trimmed, the
\* body being the text after the header on the header line followed by every
\* later line up to the next header, in order, nothing inserted between them;
\* and the parse of one chapter with the two articles of scenario A returns
\* the tree of scenario A.
C6_ArticleText ==
    /\ SplitReturned =>
          LET h == HeaderIdx(block)
          IN  \A n \in 1..Len(articles) :
                 /\ n <= Len(h)
                 /\ articles[n] =
                       strip(HeaderText(block, h[n]) \o <<NL>>
                             \o BodyText(block, h[n],
                                         IF n < Len(h) THEN h[n + 1] - 1
                                         ELSE Len(block)))
    /\ (pc = "done" /\ ScenarioABlock) => parsed = ScenarioATree

\* C6 witness: the parse of scenario A returned, its second article made of a
\* header line and a later line.
C6_Witness ==
    /\ pc = "done"
    /\ ScenarioABlock
    /\ Len(articles) = 2
    /\ Len(parsed.jang) = 1

\* C7: lines of a block before its first article header are dropped: the
\* result is that of the block without them, it is empty when the block has
\* no header, every article begins with a header, and the chapter holding the
\* block gets these articles and no other.
C7_LeadingLinesDropped ==
    /\ SplitReturned =>
          LET h == HeaderIdx(block)
          IN  /\ Len(h) = 0 => articles = <<>>
              /\ Len(h) > 0 => articles = split_articles(Tail_from(block, h[1]))
              /\ Len(articles) = Len(h)
              /\ \A n \in 1..Len(articles) : title_pattern(articles[n]) > 0
    /\ pc = "done" =>
          parsed.jang =
            <<[k |-> ChapterLine1,
               v |-> IF \A k \in 1..Len(block) : strip(block[k]) = <<>> THEN <<>>
                     ELSE <<[k |-> DefaultSection, v |-> articles]>>]>>

\* C7 witness: a returned parse of a block with content lines, then a header.
C7_Witness ==
    /\ pc = "done"
    /\ Len(HeaderIdx(block)) > 0
    /\ HeaderIdx(block)[1] > 2
    /\ \A k \in 1..2 : strip(block[k]) # <<>>
    /\ articles # <<>>

\* The trimmed line l holds an article header, but not at its start.
HeaderInside(l) ==
    /\ title_pattern(l) = 0
    /\ \E p \in 2..Len(l) : title_pattern(Tail_from(l, p)) > 0

\* b without its line k.
WithoutLine(b, k) == SubSeq(b, 1, k - 1) \o Tail_from(b, k + 1)

\* C21: an article begins at a line only when the trimmed line begins with
\* the header pattern, with or without the "ui" number: the articles are as
\* many as these lines.  A line that holds a header after other text starts
\* no article and closes none: the block gives as many articles as it gives
\* without that line, the articles other than the one open at that line are
\* the same, and the article open at that line holds the whole trimmed line
\* in its body.
C21_HeaderAnchoredAtLineStart ==
    SplitReturned =>
        /\ Len(articles) = Len(HeaderIdx(block))
        /\ \A k \in 1..Len(block) :
              HeaderInside(strip(block[k])) =>
                  LET rest == split_articles(WithoutLine(block, k))
                      open == Len(SelectSeq(HeaderIdx(block), LAMBDA h : h < k))
                  IN  /\ Len(rest) = Len(articles)
                      /\ \A n \in 1..Len(articles) : n # open => articles[n] = rest[n]
                      /\ open > 0 =>
                            /\ Holds(articles[open], strip(block[k]))
                            /\ Len(articles[open]) = Len(rest[open]) + Len(strip(block[k]))
                                  + (IF Len(rest[open]) = title_pattern(rest[open])
                                     THEN 1 ELSE 0)

\* C21 witness: an article open, then a line with a header after other text,
\* then a line that begins with a header with the "ui" number: two articles,
\* the first holding the whole middle line.
C21_Witness ==
    /\ SplitReturned
    /\ Len(block) >= 3
    /\ title_pattern(strip(block[1])) > 0
    /\ block[2] = HeaderMidLine
    /\ block[3] = IndentedArticle
    /\ Len(articles) = Len(HeaderIdx(block))
    /\ Holds(articles[1], HeaderMidLine)
    /\ has_at(articles[2], 1, <<"je", "1", "jo", "ui", "2", "(", "teungnye", ")">>)

-----------------------------------------------------------------------------
(* Properties of footer stripping (SpecLoad)                               *)

\* The agency line (agency word, digits, registry word, white space between)
\* matched at position p of t: the position after it, 0 when there is none.
AgencyEnd(t, p) ==
    IF t[p] # "beopjecheo" THEN 0
    ELSE LET w1 == skip_space(t, p + 1)
             d  == skip_digits(t, w1)
             w2 == skip_space(t, d)
         IN  IF /\ w1 > p + 1
                /\ d > w1
                /\ w2 > d
                /\ w2 <= Len(t)
                /\ t[w2] = "gukgabeopnyeongjeongbosenteo"
             THEN w2 + 1
             ELSE 0

\* The footer of the law name occurs in the output text t: the agency line,
\* then the law name, with the line break between them or, where the output
\* joined the lines, without it.
FooterIn(t, name) ==
    \E p \in 1..Len(t) :
        /\ AgencyEnd(t, p) > 0
        /\ has_at(t, skip_space(t, AgencyEnd(t, p)), name)

\* Every article text of a tree.
ArticleTexts(tree) ==
    UNION {UNION {{tree.jang[n].v[q].v[a] : a \in 1..Len(tree.jang[n].v[q].v)} :
                    q \in 1..Len(tree.jang[n].v)} :
           n \in 1..Len(tree.jang)}

\* C9: the footer of the document's own law name occurs in no output of the
\* document: not in the preamble, not in an article text, not in the addendum.
\* Stated for the documents from whose pages one removal of the footer of
\* their own law name leaves no such footer behind.
C9_FooterAbsent ==
    (pc = "done" /\ ~FooterIn(load_pdf(law_name, pages), law_name)) =>
        /\ ~FooterIn(parsed.seomun, law_name)
        /\ \A t \in ArticleTexts(parsed) : ~FooterIn(t, law_name)
        /\ ~FooterIn(parsed.buchik, law_name)

\* The raw lines of page k.
PageLines(k) == split_nl(pages[k], <<>>)

\* The pages with lines j and j + 1 of page k deleted.
WithoutLines(k, j) ==
    [pages EXCEPT ![k] = join(<<NL>>, SubSeq(PageLines(k), 1, j - 1)
                                       \o Tail_from(PageLines(k), j + 2))]

\* Lines j and j + 1 of page k are the footer of the document's law name,
\* standing between two other lines of the page.
FooterBetween(k, j) ==
    /\ 1 < j
    /\ j + 1 < Len(PageLines(k))
    /\ PageLines(k)[j] = AgencyLine
    /\ PageLines(k)[j + 1] = law_name

\* C10: for a document loaded by LawDocumentParser, a footer standing between
\* two lines of a page changes nothing: the tree returned is the one returned
\* for the same pages without these two lines.
C10_FooterInsertionNeutral ==
    (pc = "done" /\ impl = "LawDocumentParser") =>
        \A k \in 1..Len(pages) :
            \A j \in 1..Len(PageLines(k)) :
                FooterBetween(k, j) =>
                    parsed = parse_law(impl, load_pdf(law_name, WithoutLines(k, j)))

\* Some page has the agency line followed by a line equal to the law name.
FooterLines ==
    \E k \in 1..Len(pages) :
        \E j \in 1..(Len(PageLines(k)) - 1) :
            PageLines(k)[j] = AgencyLine /\ PageLines(k)[j + 1] = law_name

\* The text of the pages with nothing removed: each page trimmed, the pages
\* joined by line breaks.
PagesText == join(<<NL>>, [k \in 1..Len(pages) |-> strip(pages[k])])

\* C25: when no page has the agency line followed by a line equal to the law
\* name (the line after the agency line is the law name followed by other
\* text, or there is no agency line, or nothing follows it), the loaded text
\* is the text of the pages, nothing removed.
C25_OnlyWholeNameLineIsFooter ==
    (pc \in {"parse", "done"} /\ ~FooterLines) => law_text = PagesText

-----------------------------------------------------------------------------
(* Properties of an ingestion run (SpecRun)                                *)

\* A file has just been assembled: parsed is its tree and the last element of
\* saved its records.
Assembled == pc \in {"file", "end"} /\ saved # <<>>

\* The file last assembled and its records.
LastFile  == pdf_files[Len(saved)]
LastSaved == saved[Len(saved)]

\* The positions <<chapter, section, article>> of the articles of a tree.
Triples(tree) ==
    UNION {UNION {{<<c, q, a>> : a \in 1..Len(tree.jang[c].v[q].v)} :
                    q \in 1..Len(tree.jang[c].v)} :
           c \in 1..Len(tree.jang)}

\* u comes before t: by chapter, then by section, then by article.
Before(u, t) ==
    \/ u[1] < t[1]
    \/ u[1] = t[1] /\ u[2] < t[2]
    \/ u[1] = t[1] /\ u[2] = t[2] /\ u[3] < t[3]

\* The place of the article at t in chapter-then-section-then-article order.
Rank(tree, t) == Cardinality({u \in Triples(tree) : Before(u, t)}) + 1

\* C11: the records of a file are one per article of its tree, in
\* chapter-then-section-then-article order; the record of an article carries
\* the chapter key and the section key the article is under, its article
\* field is the header the article text begins with, and its content ends
\* with the article text; the chapters of the tree are in the order their
\* headers were first seen in the text.
C11_OneRecordPerArticle ==
    Assembled =>
        /\ Len(LastSaved) = Cardinality(Triples(parsed))
        /\ \A t \in Triples(parsed) :
              LET r   == LastSaved[Rank(parsed, t)]
                  art == parsed.jang[t[1]].v[t[2]].v[t[3]]
              IN  /\ r.chapter = parsed.jang[t[1]].k
                  /\ r.section = parsed.jang[t[1]].v[t[2]].k
                  /\ title_pattern(art) > 0
                  /\ r.article = SubSeq(art, 1, title_pattern(art))
                  /\ has_at(r.page_content, Len(r.page_content) - Len(art) + 1, art)
        /\ [c \in 1..Len(parsed.jang) |-> parsed.jang[c].k]
              = FirstSeen(text_lines(law_text))

\* C11 witness: a file assembled into records of two chapters, the second
\* chapter header seen after the first.
C11_Witness ==
    /\ Assembled
    /\ Len(LastSaved) >= 2
    /\ LastSaved[1].chapter # LastSaved[Len(LastSaved)].chapter
    /\ Len(parsed.jang) >= 2

\* C12: every record handed over for the file at position k of the run
\* carries the path of that file and the law name of that file, so none
\* carries the path or the law name of another file of the run; and the
\* records of the file last assembled carry a chapter key of its tree and a
\* section key of that chapter.
C12_RecordProvenance ==
    /\ \A k \in 1..Len(saved) :
          \A n \in 1..Len(saved[k]) :
              /\ saved[k][n].source = pdf_files[k].path
              /\ saved[k][n].name = pdf_files[k].name
    /\ Assembled =>
          \A n \in 1..Len(LastSaved) :
              /\ dict_has(parsed.jang, LastSaved[n].chapter)
              /\ dict_has(dict_get(parsed.jang, LastSaved[n].chapter),
                          LastSaved[n].section)

\* C17: the footer pattern applied to a file is the one of the law name of
\* that file: the text handed to the parse is the pages of the file, each
\* trimmed, cleared of the footers whose second line is the law name of the
\* file and trimmed again, joined by line breaks; so a page that is the
\* footer of the file's law name and nothing else leaves nothing.
C17_FooterOfOwnLawName ==
    (pc \in {"parse", "done"} /\ file_idx <= Len(pdf_files)) =>
        /\ law_text =
              join(<<NL>>, [k \in 1..Len(CurrentFile.pages) |->
                              strip(footer_sub(strip(CurrentFile.pages[k]), 1,
                                               CurrentFile.name))])
        /\ CurrentFile.pages = <<join(<<NL>>, <<AgencyLine, CurrentFile.name>>)>>
              => law_text = <<>>

-----------------------------------------------------------------------------
(* Properties of interleaved invocations (SpecInter)                       *)

\* The locals invocation n would hold at its line i when run alone: those the
\* steps over its first i - 1 lines give, one after the other.
RECURSIVE AloneAt(_, _, _)
AloneAt(im, ls, k) ==
    IF k = 0 THEN initial_locals
    ELSE LET s == AloneAt(im, ls, k - 1)
             c == line_class(ls[k])
         IN  IF c = "blank" THEN s
             ELSE IF c = "addendum" THEN on_addendum(s, im, ls, k)
             ELSE IF c = "chapter" THEN on_chapter(s, ls[k])
             ELSE IF c = "section" THEN on_section(s, ls[k])
             ELSE on_content(s, ls[k])

\* C16: whatever the order in which the steps of two invocations on two
\* different documents are taken, each invocation holds at every line the
\* locals it would hold there when run alone and returns the result it
\* returns when run alone, and a step of one invocation changes nothing of
\* the other.
C16_InvocationsIndependent ==
    /\ [](\A n \in Invocations :
             /\ inv[n].pc = "loop" =>
                   inv[n].s = AloneAt(impl, inv[n].lines, inv[n].i - 1)
             /\ inv[n].pc = "break" =>
                   inv[n].s = AloneAt(impl, inv[n].lines, inv[n].i)
             /\ inv[n].pc = "done" =>
                   inv[n].s.parsed = parse_law(impl, inv[n].law_text))
    /\ [][\A n \in Invocations : inv[n]' # inv[n] => inv[3 - n]' = inv[3 - n]]_vars

\* C16 witness: both invocations have returned, each a tree with a chapter,
\* the two trees different.
C16_Witness ==
    /\ pc = "inter"
    /\ \A n \in Invocations : inv[n].pc = "done" /\ inv[n].s.parsed.jang # <<>>
    /\ inv[1].s.parsed # inv[2].s.parsed

-----------------------------------------------------------------------------
(* Properties of the line-break variants (SpecBreak)                       *)

\* The texts obtained from t by writing each of its line breaks ("\r\n",
\* a lone "\r" or a lone "\n") in any of the three forms.
RECURSIVE Variants(_)
Variants(t) ==
    IF t = <<>> THEN {<<>>}
    ELSE IF Len(t) >= 2 /\ t[1] = CR /\ t[2] = NL
         THEN {b \o v : b \in BreakForms, v \in Variants(Tail_from(t, 3))}
    ELSE IF t[1] \in {CR, NL}
         THEN {b \o v : b \in BreakForms, v \in Variants(Tail(t))}
    ELSE {<<t[1]>> \o v : v \in Variants(Tail(t))}

\* The variants in which no "\r" written for a line break stands right
\* before the "\n" of the next line break.
RECURSIVE SeparateVariants(_)
SeparateVariants(t) ==
    LET Ok(b, v) == ~(b = <<CR>> /\ v # <<>> /\ v[1] = NL)
    IN  IF t = <<>> THEN {<<>>}
        ELSE IF Len(t) >= 2 /\ t[1] = CR /\ t[2] = NL
             THEN UNION {{b \o v : v \in {w \in SeparateVariants(Tail_from(t, 3)) : Ok(b, w)}} :
                        b \in BreakForms}
        ELSE IF t[1] \in {CR, NL}
             THEN UNION {{b \o v : v \in {w \in SeparateVariants(Tail(t)) : Ok(b, w)}} :
                        b \in BreakForms}
        ELSE {<<t[1]>> \o v : v \in SeparateVariants(Tail(t))}

-----------------------------------------------------------------------------
(* Properties of the corrective-RAG graph (SpecGraph)                      *)

\* How many times node was called in the run.
Calls(node) == Cardinality({k \in 1..Len(trace) : trace[k] = node})

\* The run is over: at END, or ended by an error.
RunOver == pc \in {"end", "raised"}

\* C29: a run is made of at most six node calls; retrieve and
\* extract_and_evaluate are called at most twice and rewrite_query at most
\* once, right after an extract_and_evaluate that left no valid strip; and a
\* run that is over has called generate_answer exactly once, as its last call.
C29_GraphRunEndsWithOneAnswer ==
    /\ Len(trace) <= 6
    /\ Calls("retrieve") <= 2
    /\ Calls("extract_and_evaluate") <= 2
    /\ Calls("rewrite_query") <= 1
    /\ \A k \in 1..Len(trace) :
          trace[k] = "rewrite_query" => k > 1 /\ trace[k - 1] = "extract_and_evaluate"
    /\ pc = "rewrite_query" => state.extracted_info = <<>>
    /\ Calls("generate_answer") <= 1
    /\ RunOver =>
          /\ pc = "end"
          /\ Calls("generate_answer") = 1
          /\ trace[Len(trace)] = "generate_answer"

\* C30: num_generations is within the bounds the state model declares for
\* it, 0 to 1, in every state of a run.
C30_NumGenerationsInBounds == num_generations_ok(state.num_generations)

====
